---- MODULE Spec2Model ----
(***************************************************************************)
(* Cache-aside sentiment analysis service: POST /analyze, GET /health and  *)
(* POST /cache/clear of src/main.py over RedisCache (src/cache.py) and      *)
(* SentimentAnalysisService (src/services.py).                              *)
(*                                                                          *)
(* Every handler is a coroutine; the event loop interleaves requests at     *)
(* their awaits only, so one action is the code between two awaits.         *)
(* Confidence values are written in hundredths (0.95 is 95).                *)
(***************************************************************************)
EXTENDS Integers, Sequences, FiniteSets, TLC

\* ------------------------------------------------------------------ bounds
NumRequests == 2        \* request slots served concurrently
TtlTicks == 2           \* settings.redis.redis_ttl, counted in clock ticks

Requests == 1..NumRequests

\* ------------------------------------------------------------- input sets
Texts == {"good", "Good"}
Models == {"llama3", "llama2"}

\* The request texts and their variants in surrounding whitespace.
KeyTexts == Texts \cup {" good", "good "}

\* hashlib.md5(text.encode('utf-8')).hexdigest() on these texts
Md5Hex ==
    [t \in KeyTexts |->
        CASE t = "good" -> "755f85c2723bb39381c7379a604160d8"
          [] t = "Good" -> "0c6ad70beb3a7e76c3fc7adab7c46acc"
          [] t = " good" -> "288aaf9d309cd82fa67d861e5ec3c54a"
          [] OTHER -> "81ffd57e28d420cde175684268dfe8cd"]

\* Mutant: the text is stripped and lower-cased before it is hashed.
generate_cache_key_normalized(t) == Md5Hex["good"]

generate_cache_key(t) == Md5Hex[t]

Keys == {generate_cache_key(t) : t \in Texts}

\* ------------------------------------------------------------------ models.py
SentimentLabel == {"positive", "negative", "neutral", "mixed"}

NoValue == [label |-> "", confidence |-> 0, explanation |-> ""]

\* SentimentResult.model_validate: label in the enumeration, 0.0 <= confidence <= 1.0
SentimentResultValid(v) ==
    /\ v.label \in SentimentLabel
    /\ v.confidence >= 0
    /\ v.confidence <= 100

FallbackJudgment ==
    [label |-> "neutral", confidence |-> 0,
     explanation |-> "Unable to determine sentiment"]

\* What the backend's reply parses to, when it parses as JSON.
JsonReplies ==
    { [label |-> "positive", confidence |-> 95, explanation |-> "Great product!"],
      [label |-> "positive", confidence |-> 150, explanation |-> "Over-confident"],
      [label |-> "happy", confidence |-> 50, explanation |-> "Unknown label"] }

\* The ways chain.ainvoke can end before the timeout.
ChainReplies ==
    { [kind |-> "json", value |-> v] : v \in JsonReplies }
    \cup { [kind |-> "garbage", value |-> NoValue],
           [kind |-> "fault", value |-> NoValue] }

\* ------------------------------------------------------------------ exceptions
\* The classes each raised exception is an instance of.
ExcBases(type) ==
    CASE type = "OutputParserException" ->
            {"OutputParserException", "ValueError", "Exception"}
      [] type = "TimeoutError" -> {"TimeoutError", "OSError", "Exception"}
      [] type = "ValidationError" -> {"ValidationError", "ValueError", "Exception"}
      [] type = "SentimentAnalysisError" -> {"SentimentAnalysisError", "Exception"}
      [] OTHER -> {type, "Exception"}

NoDetails == "{}"      \* str of an empty details dict

Returned(v) ==
    [kind |-> "return", value |-> v, exc |-> "", msg |-> "", details |-> NoDetails]

Raised(type, msg, details) ==
    [kind |-> "raise", value |-> NoValue, exc |-> type, msg |-> msg,
     details |-> details]

NoOutcome ==
    [kind |-> "none", value |-> NoValue, exc |-> "", msg |-> "", details |-> NoDetails]

\* ------------------------------------------------------------------ services.py
\* await chain.ainvoke(...): the parser returns the parsed object, raises
\* OutputParserException on a reply that is not JSON, or the call itself fails.
chain_ainvoke(reply) ==
    CASE reply.kind = "json" -> Returned(reply.value)
      [] reply.kind = "garbage" ->
            Raised("OutputParserException", "Invalid json output", NoDetails)
      [] OTHER -> Raised("ConnectionError", "Connection refused", NoDetails)

\* asyncio.wait_for(...) when request_timeout expires first
wait_for_expired == Raised("TimeoutError", "", NoDetails)

\* exc.errors() of the pydantic ValidationError
ValidationErrors(v) ==
    IF v.label \notin SentimentLabel
    THEN "[{'type': 'enum', 'loc': ('label',)}]"
    ELSE IF v.confidence > 100
         THEN "[{'type': 'less_than_equal', 'loc': ('confidence',)}]"
         ELSE "[{'type': 'greater_than_equal', 'loc': ('confidence',)}]"

\* Mutant: the result is built without validation (model_construct).
TryBodyUnvalidated(awaited) == awaited

\* The try body: the awaited chain, then SentimentResult.model_validate(result).
TryBody(awaited) ==
    IF awaited.kind = "raise" THEN awaited
    ELSE IF SentimentResultValid(awaited.value)
         THEN Returned(awaited.value)
         ELSE Raised("ValidationError", "1 validation error for SentimentResult",
                     ValidationErrors(awaited.value))

\* Mutant: the broad clause comes first.
ExceptClausesBroadFirst ==
    <<"Exception", "OutputParserException", "TimeoutError", "ValidationError">>

\* The except clauses, in the order the source lists them.
ExceptClauses ==
    <<"OutputParserException", "TimeoutError", "ValidationError", "Exception">>

\* Python runs the first clause whose class the exception is an instance of.
FirstClause(e) ==
    LET i == CHOOSE n \in 1..Len(ExceptClauses) :
                 /\ ExceptClauses[n] \in ExcBases(e.exc)
                 /\ \A m \in 1..(n - 1) : ExceptClauses[m] \notin ExcBases(e.exc)
    IN ExceptClauses[i]

ClauseBody(clause, e) ==
    CASE clause = "OutputParserException" -> Returned(FallbackJudgment)
      [] clause = "TimeoutError" ->
            Raised("TimeoutError", "Sentiment analysis request timed out", NoDetails)
      [] clause = "ValidationError" ->
            Raised("SentimentAnalysisError", "Invalid response format from LLM",
                   IF e.details = "[{'type': 'enum', 'loc': ('label',)}]"
                   THEN "{'validation_errors': [{'type': 'enum', 'loc': ('label',)}]}"
                   ELSE IF e.details = "[{'type': 'less_than_equal', 'loc': ('confidence',)}]"
                   THEN "{'validation_errors': [{'type': 'less_than_equal', 'loc': ('confidence',)}]}"
                   ELSE "{'validation_errors': [{'type': 'greater_than_equal', 'loc': ('confidence',)}]}")
      [] OTHER ->
            Raised("SentimentAnalysisError",
                   "Unexpected error during sentiment analysis",
                   "{'error': 'Connection refused'}")

\* SentimentAnalysisService.analyze_sentiment, given how the awaited chain ended
Service_analyze_sentiment(awaited) ==
    LET t == TryBody(awaited)
    IN IF t.kind = "return" THEN t ELSE ClauseBody(FirstClause(t), t)

\* ------------------------------------------------------------------ cache.py
NoEntry == [text |-> "", sentiment |-> NoValue, model_used |-> ""]

EmptyStore == [k \in {} |-> <<>>]

\* json.dumps(value, default=str): the entry flattened to its JSON text
JsonDumps(value) ==
    <<"text", value.text, "sentiment", value.sentiment.label,
      value.sentiment.confidence, value.sentiment.explanation,
      "model_used", value.model_used>>

\* Mutant: the explanation does not survive the round trip.
JsonLoadsNoExplanation(data) ==
    [text |-> data[2],
     sentiment |-> [label |-> data[4], confidence |-> data[5],
                    explanation |-> ""],
     model_used |-> data[8]]

\* json.loads(data)
JsonLoads(data) ==
    [text |-> data[2],
     sentiment |-> [label |-> data[4], confidence |-> data[5],
                    explanation |-> data[6]],
     model_used |-> data[8]]

\* redis GET: the value of a key that is present and unexpired
RedisGet(st, key) == IF key \in DOMAIN st THEN st[key].data ELSE <<>>

\* Mutant: SET ... NX, a key that is present keeps its value.
RedisSetNx(st, key, ttl, data) ==
    IF key \in DOMAIN st THEN st
    ELSE [k \in (DOMAIN st) \cup {key} |->
            IF k = key THEN [data |-> data, ttl |-> ttl] ELSE st[k]]

\* redis SETEX key ttl data: replaces the value and restarts the expiry
RedisSetex(st, key, ttl, data) ==
    [k \in (DOMAIN st) \cup {key} |->
        IF k = key THEN [data |-> data, ttl |-> ttl] ELSE st[k]]

\* redis FLUSHDB
RedisFlushdb(st) == EmptyStore

\* One tick of the store's clock: keys whose time is up are gone.
RedisExpire(st) ==
    [k \in {j \in DOMAIN st : st[j].ttl > 1} |->
        [data |-> st[k].data, ttl |-> st[k].ttl - 1]]

\* A call on the Redis client raises when the store is unreachable (fault);
\* each RedisCache method wraps its call in try / except Exception.
\* raised: the exception leaves the method (never, with the except clause).

\* Mutant: get does not look at cache_enabled.
RedisCache_get_ignores_flag(enabled, st, key, fault) ==
    IF fault THEN [raised |-> FALSE, value |-> NoEntry, io |-> TRUE]
    ELSE LET data == RedisGet(st, key)
         IN [raised |-> FALSE,
             value |-> IF data # <<>> THEN JsonLoads(data) ELSE NoEntry,
             io |-> TRUE]

\* RedisCache.get: None (NoEntry) when disabled, on a fault, or on no data;
\* io: the method reached its call on the Redis client
RedisCache_get(enabled, st, key, fault) ==
    IF ~enabled THEN [raised |-> FALSE, value |-> NoEntry, io |-> FALSE]
    ELSE IF fault THEN [raised |-> FALSE, value |-> NoEntry, io |-> TRUE]
    ELSE LET data == RedisGet(st, key)
         IN [raised |-> FALSE,
             value |-> IF data # <<>> THEN JsonLoads(data) ELSE NoEntry,
             io |-> TRUE]

\* Mutant: the setex call is not wrapped, a fault leaves the method.
RedisCache_set_unguarded(enabled, st, key, value, ttl, selfTtl, fault) ==
    IF ~enabled THEN [raised |-> FALSE, ok |-> FALSE, store |-> st, io |-> FALSE]
    ELSE IF fault THEN [raised |-> TRUE, ok |-> FALSE, store |-> st, io |-> TRUE]
    ELSE [raised |-> FALSE, ok |-> TRUE,
          store |-> RedisSetex(st, key, selfTtl, JsonDumps(value)), io |-> TRUE]

\* Mutant: the expiry is passed in another unit, twice the configured one.
RedisCache_set_long_ttl(enabled, st, key, value, ttl, selfTtl, fault) ==
    IF ~enabled THEN [raised |-> FALSE, ok |-> FALSE, store |-> st, io |-> FALSE]
    ELSE IF fault THEN [raised |-> FALSE, ok |-> FALSE, store |-> st, io |-> TRUE]
    ELSE [raised |-> FALSE, ok |-> TRUE,
          store |-> RedisSetex(st, key, selfTtl + selfTtl, JsonDumps(value)),
          io |-> TRUE]

\* RedisCache.set; ttl 0 stands for None; SETEX rejects a ttl that is not positive
RedisCache_set(enabled, st, key, value, ttl, selfTtl, fault) ==
    IF ~enabled THEN [raised |-> FALSE, ok |-> FALSE, store |-> st, io |-> FALSE]
    ELSE LET actual_ttl == IF ttl # 0 THEN ttl ELSE selfTtl
         IN IF fault \/ actual_ttl <= 0
            THEN [raised |-> FALSE, ok |-> FALSE, store |-> st, io |-> TRUE]
            ELSE [raised |-> FALSE, ok |-> TRUE,
                  store |-> RedisSetex(st, key, actual_ttl, JsonDumps(value)),
                  io |-> TRUE]

\* redis DEL key: the number of keys removed
RedisDel(st, key) ==
    [n |-> IF key \in DOMAIN st THEN 1 ELSE 0,
     store |-> [k \in (DOMAIN st) \ {key} |-> st[k]]]

\* Mutant: the delete call is not wrapped, a fault leaves the method.
RedisCache_delete_unguarded(st, key, fault) ==
    IF fault THEN [raised |-> TRUE, ok |-> FALSE, store |-> st]
    ELSE [raised |-> FALSE, ok |-> RedisDel(st, key).n # 0,
          store |-> RedisDel(st, key).store]

\* RedisCache.delete: bool(result) of DEL, False on a fault
RedisCache_delete(st, key, fault) ==
    IF fault THEN [raised |-> FALSE, ok |-> FALSE, store |-> st]
    ELSE [raised |-> FALSE, ok |-> RedisDel(st, key).n # 0,
          store |-> RedisDel(st, key).store]

\* Mutant: the ping is not wrapped, a fault leaves the method.
RedisCache_health_check_unguarded(fault) == [raised |-> fault, ok |-> ~fault]

\* RedisCache.health_check
RedisCache_health_check(fault) == [raised |-> FALSE, ok |-> ~fault]

\* Mutant: True is returned after the except clause too.
RedisCache_clear_cache_always_true(st, fault) ==
    IF fault THEN [raised |-> FALSE, ok |-> TRUE, store |-> st]
    ELSE [raised |-> FALSE, ok |-> TRUE, store |-> RedisFlushdb(st)]

\* RedisCache.clear_cache
RedisCache_clear_cache(st, fault) ==
    IF fault THEN [raised |-> FALSE, ok |-> FALSE, store |-> st]
    ELSE [raised |-> FALSE, ok |-> TRUE, store |-> RedisFlushdb(st)]

\* The exception a Redis client call raises on a fault
RedisFault == Raised("ConnectionError", "Error connecting to redis", NoDetails)

\* ------------------------------------------------------------------ main.py
NoResp ==
    [status |-> 0, text |-> "", sentiment |-> NoValue, cached |-> FALSE,
     model_used |-> "", error |-> "", details |-> "", code |-> 0,
     health |-> "", cache |-> "", message |-> "", detail |-> ""]

\* Mutant: the body's code is the literal 500 in every handler.
ErrorResponseCode500(status, error, details, code) ==
    [NoResp EXCEPT !.status = status, !.error = error, !.details = details,
                   !.code = 500]

\* JSONResponse(status_code=..., content=ErrorResponse(error, details, code))
ErrorResponse(status, error, details, code) ==
    [NoResp EXCEPT !.status = status, !.error = error, !.details = details,
                   !.code = code]

\* Mutant: the response carries the exception's details payload.
sentiment_analysis_handler_payload(exc) ==
    ErrorResponse(500, "Sentiment analysis failed", exc.details, 500)

\* str(exc) is the message the exception was constructed with
sentiment_analysis_exception_handler(exc) ==
    ErrorResponse(500, "Sentiment analysis failed", exc.msg, 500)

timeout_exception_handler(exc) ==
    ErrorResponse(504, "Analysis timeout", exc.msg, 504)

general_exception_handler(exc) ==
    ErrorResponse(500, "Internal server error", exc.msg, 500)

\* Mutant: no handler is registered for TimeoutError.
exception_container_no_timeout(exc) ==
    IF "SentimentAnalysisError" \in ExcBases(exc.exc)
    THEN sentiment_analysis_exception_handler(exc)
    ELSE general_exception_handler(exc)

\* The handler registered for the most specific class of the exception
exception_container(exc) ==
    IF "SentimentAnalysisError" \in ExcBases(exc.exc)
    THEN sentiment_analysis_exception_handler(exc)
    ELSE IF "TimeoutError" \in ExcBases(exc.exc)
         THEN timeout_exception_handler(exc)
         ELSE general_exception_handler(exc)

\* AnalysisResponse(**fields): 200 when the fields validate, else the
\* ValidationError reaches the general handler
AnalysisResponse(fields, cached) ==
    IF SentimentResultValid(fields.sentiment)
    THEN [NoResp EXCEPT !.status = 200, !.text = fields.text,
                        !.sentiment = fields.sentiment, !.cached = cached,
                        !.model_used = fields.model_used]
    ELSE general_exception_handler(
             Raised("ValidationError", "1 validation error for AnalysisResponse",
                    NoDetails))

\* Mutant: the entry is built without the model identifier.
response_data_no_model(t, sentiment_result, configured) ==
    [text |-> t, sentiment |-> sentiment_result, model_used |-> ""]

\* response_data before the per-response fields are added
response_data(t, sentiment_result, configured) ==
    [text |-> t, sentiment |-> sentiment_result, model_used |-> configured]

\* `if cached_result:` a dict that is not None and not empty
Truthy(cached_result) == cached_result # NoEntry

\* Mutant: the handler goes on to cache.set whatever the service did.
AfterAnalyzeAlwaysSet(outcome) == "set"

\* Mutant: the fallback judgment is not passed on to the cache write.
AfterAnalyzeSkipFallback(outcome) ==
    IF outcome.kind = "return" /\ outcome.value # FallbackJudgment
    THEN "set" ELSE "done"

\* Mutant: a timed-out call is awaited again.
AfterAnalyzeRetryOnTimeout(outcome) ==
    IF outcome.kind = "return" THEN "set"
    ELSE IF outcome.exc = "TimeoutError" THEN "backend" ELSE "done"

\* What follows `await service.analyze_sentiment(...)`: on a return the
\* handler goes on to cache.set, on a raise the exception leaves the handler
AfterAnalyze(outcome) == IF outcome.kind = "return" THEN "set" ELSE "done"

\* One record of a call a request made on its collaborators.
\* value: the entry passed (set) or returned (get); fault: the store was
\* unreachable when the call was made; io: the call reached the Redis client;
\* ok: the bool a set, health_check or clear_cache returned.
Call(op, key, t, value) ==
    [op |-> op, key |-> key, text |-> t, value |-> value, fault |-> FALSE,
     io |-> FALSE, ok |-> FALSE]

\* What a call made directly on the RedisCache returned.
NoRet ==
    [op |-> "", key |-> "", fault |-> FALSE, raised |-> FALSE,
     value |-> NoEntry, ok |-> FALSE, io |-> FALSE]

NoReply == [kind |-> "none", value |-> NoValue]

NoHist ==
    [calls |-> 0, text |-> "", sentiment |-> NoValue, state |-> ""]

VARIABLES
    model,          \* settings.ollama.model
    cache_enabled,  \* RedisCache.cache_enabled
    store,          \* the Redis database: key -> [data, ttl]
    pc,             \* per request: where its handler is suspended
    text,           \* per request: request_data.text
    chain,          \* per request: how the awaited backend call ended
    result,         \* per request: how service.analyze_sentiment ended
    resp,           \* per request: the response sent
    calls,          \* per request: the calls made on cache and service, in order
    written,        \* history: key -> the last successful write and its age
    followed,       \* history: the clients whose consecutive calls are followed
    hist,           \* history: per followed client, its previous miss
    ret             \* what the last call made directly on the RedisCache returned

vars == <<model, cache_enabled, store, pc, text, chain, result, resp, calls,
          written, followed, hist, ret>>

\* The state of the request slots when the process starts.
FreshRequests ==
    /\ pc = [r \in Requests |-> "idle"]
    /\ text = [r \in Requests |-> ""]
    /\ chain = [r \in Requests |-> NoReply]
    /\ result = [r \in Requests |-> NoOutcome]
    /\ resp = [r \in Requests |-> NoResp]
    /\ calls = [r \in Requests |-> <<>>]

InitCommon ==
    /\ model \in Models
    /\ store = EmptyStore
    /\ FreshRequests
    /\ written = EmptyStore
    /\ hist = [r \in Requests |-> NoHist]
    /\ ret = NoRet

\* lifespan: RedisCache(redis_client, ttl) leaves cache_enabled at its default
Init == InitCommon /\ cache_enabled = TRUE /\ followed = {}

\* One run of the process ("llama3" throughout) with the calls of client 1
\* followed from one request to the next.
InitFollowed ==
    InitCommon /\ model = "llama3" /\ cache_enabled = TRUE /\ followed = {1}

\* Mutant: the hit reports the configured model, not the stored one.
HitResponseConfiguredModel(cached_result) ==
    AnalysisResponse([cached_result EXCEPT !.model_used = model], TRUE)

\* AnalysisResponse(**cached_result, cached=True, ...): main.py 140-145
HitResponse(cached_result) == AnalysisResponse(cached_result, TRUE)

\* ------------------------------------------------------------------ history
\* A followed client between its miss (calls = 1) and the read of its next
\* request, when that is an /analyze of the same text (calls = 2, then 3 once
\* it has read): the entry is "intact", or was "lost" to a failed write or
\* another request's write, or "flushed", or "expired" (and the key is still
\* absent), or expired and was "renewed" by another request's write; "unread"
\* is an intact entry that the next read could not reach.
Disturb(h, keys, how) ==
    [o \in Requests |->
        IF /\ h[o].calls \in {1, 2}
           /\ generate_cache_key(h[o].text) \in keys
        THEN [h[o] EXCEPT !.state =
                 CASE how = "expired" -> "expired"
                   [] how = "write" ->
                        IF @ \in {"expired", "renewed"} THEN "renewed"
                        ELSE IF @ = "flushed" THEN "flushed" ELSE "lost"
                   [] OTHER ->
                        IF @ \in {"expired", "renewed"} THEN "expired"
                        ELSE "flushed"]
        ELSE h[o]]

\* ------------------------------------------------------------------ actions
\* POST /analyze arrives: main.py 136-138, up to the await of cache.get
Begin(r, t) ==
    /\ pc[r] \in {"idle", "done"}
    /\ pc' = [pc EXCEPT ![r] = "get"]
    /\ text' = [text EXCEPT ![r] = t]
    /\ chain' = [chain EXCEPT ![r] = NoReply]
    /\ result' = [result EXCEPT ![r] = NoOutcome]
    /\ resp' = [resp EXCEPT ![r] = NoResp]
    /\ calls' = [calls EXCEPT ![r] =
                    <<Call("get", generate_cache_key(t), "", NoEntry)>>]
    /\ hist' = [hist EXCEPT ![r] =
                   IF @.calls = 1 /\ @.text = t
                   THEN [@ EXCEPT !.calls = 2] ELSE NoHist]
    /\ UNCHANGED <<ret, model, cache_enabled, store, written, followed>>

\* cache.get returns: main.py 138-146, up to the await of the service
CacheGet(r) ==
    /\ pc[r] = "get"
    /\ \E fault \in BOOLEAN :
        LET got == RedisCache_get(cache_enabled, store,
                                  generate_cache_key(text[r]), fault)
            cached_result == got.value
            logged == <<[calls[r][1] EXCEPT !.value = cached_result,
                                            !.fault = fault, !.io = got.io]>>
        IN /\ IF got.raised
              THEN /\ resp' = [resp EXCEPT ![r] =
                                  general_exception_handler(RedisFault)]
                   /\ pc' = [pc EXCEPT ![r] = "done"]
                   /\ calls' = [calls EXCEPT ![r] = logged]
              ELSE IF Truthy(cached_result)
              THEN /\ resp' = [resp EXCEPT ![r] = HitResponse(cached_result)]
                   /\ pc' = [pc EXCEPT ![r] = "done"]
                   /\ calls' = [calls EXCEPT ![r] = logged]
              ELSE /\ pc' = [pc EXCEPT ![r] = "backend"]
                   /\ calls' = [calls EXCEPT ![r] =
                        Append(logged, Call("analyze", "", text[r], NoEntry))]
                   /\ resp' = resp
           /\ hist' = IF hist[r].calls = 2
                      THEN [hist EXCEPT ![r] =
                               [@ EXCEPT !.calls = 3,
                                         !.state = IF fault /\ @ = "intact"
                                                   THEN "unread" ELSE @]]
                      ELSE hist
    /\ UNCHANGED <<ret, model, cache_enabled, store, text, chain, result, written,
                   followed>>

\* service.analyze_sentiment ends: services.py 70-100, then main.py 146-152
\* up to the await of cache.set, or the exception handler's response
ServiceDone(r, reply, awaited) ==
    LET outcome == Service_analyze_sentiment(awaited)
        next == AfterAnalyze(outcome)
    IN /\ chain' = [chain EXCEPT ![r] = reply]
       /\ result' = [result EXCEPT ![r] = outcome]
       /\ pc' = [pc EXCEPT ![r] = next]
       /\ IF next = "set"
          THEN /\ calls' = [calls EXCEPT ![r] =
                    Append(@, Call("set", generate_cache_key(text[r]), "",
                                   response_data(text[r], outcome.value, model)))]
               /\ resp' = resp
          ELSE /\ resp' = [resp EXCEPT ![r] = exception_container(outcome)]
               /\ calls' = calls
       /\ UNCHANGED <<ret, model, cache_enabled, store, text, written, followed, hist>>

\* The backend answers (or the call fails) before the timeout.
ChainReply(r) ==
    /\ pc[r] = "backend"
    /\ \E reply \in ChainReplies : ServiceDone(r, reply, chain_ainvoke(reply))

\* request_timeout passes first: asyncio.wait_for cancels the call and raises.
WaitForTimeout(r) ==
    /\ pc[r] = "backend"
    /\ ServiceDone(r, [kind |-> "timeout", value |-> NoValue], wait_for_expired)

\* cache.set returns: main.py 152-158
CacheSet(r) ==
    /\ pc[r] = "set"
    /\ \E fault \in BOOLEAN :
        LET key == generate_cache_key(text[r])
            value == calls[r][3].value
            w == RedisCache_set(cache_enabled, store, key, value, 0, TtlTicks, fault)
            response == IF w.raised THEN general_exception_handler(RedisFault)
                        ELSE AnalysisResponse(value, FALSE)
            others == Disturb(hist, IF w.ok THEN {key} ELSE {}, "write")
        IN /\ store' = w.store
           /\ written' =
                IF w.ok
                THEN [k \in DOMAIN w.store |->
                        IF k = key
                        THEN [value |-> value, age |-> 0, by |-> result[r].kind]
                        ELSE written[k]]
                ELSE written
           /\ calls' = [calls EXCEPT ![r][3].fault = fault, ![r][3].io = w.io,
                                     ![r][3].ok = w.ok]
           /\ resp' = [resp EXCEPT ![r] = response]
           /\ hist' =
                IF r \in followed /\ hist[r].calls = 0 /\ response.status = 200
                THEN [others EXCEPT ![r] =
                        [calls |-> 1, text |-> text[r],
                         sentiment |-> response.sentiment,
                         state |-> IF w.ok THEN "intact" ELSE "lost"]]
                ELSE [others EXCEPT ![r] = hist[r]]
    /\ pc' = [pc EXCEPT ![r] = "done"]
    /\ UNCHANGED <<ret, model, cache_enabled, text, chain, result, followed>>

\* Time passes in the store: every entry is one tick nearer its expiry.
Tick ==
    /\ DOMAIN store # {}
    /\ store' = RedisExpire(store)
    /\ written' = [k \in DOMAIN store' |-> [written[k] EXCEPT !.age = @ + 1]]
    /\ hist' = Disturb(hist, (DOMAIN store) \ (DOMAIN store'), "expired")
    /\ UNCHANGED <<ret, model, cache_enabled, pc, text, chain, result, resp, calls,
                   followed>>

\* A request other than /analyze arrives and awaits its one cache call.
BeginAdmin(r, op) ==
    /\ pc[r] \in {"idle", "done"}
    /\ pc' = [pc EXCEPT ![r] = op]
    /\ text' = [text EXCEPT ![r] = ""]
    /\ chain' = [chain EXCEPT ![r] = NoReply]
    /\ result' = [result EXCEPT ![r] = NoOutcome]
    /\ resp' = [resp EXCEPT ![r] = NoResp]
    /\ calls' = [calls EXCEPT ![r] = <<Call(op, "", "", NoEntry)>>]
    /\ hist' = [hist EXCEPT ![r] = NoHist]
    /\ UNCHANGED <<ret, model, cache_enabled, store, written, followed>>

\* GET /health: main.py 160-171
HealthCheck(r) ==
    /\ pc[r] = "ping"
    /\ \E fault \in BOOLEAN :
        LET probe == RedisCache_health_check(fault)
            cache_health == probe.ok
        IN /\ resp' = [resp EXCEPT ![r] =
                IF probe.raised THEN general_exception_handler(RedisFault)
                ELSE [NoResp EXCEPT
                    !.status = IF cache_health THEN 200 ELSE 503,
                    !.health = IF cache_health THEN "healthy" ELSE "degraded",
                    !.cache = IF cache_health THEN "healthy" ELSE "unhealthy"]]
           /\ calls' = [calls EXCEPT ![r][1].fault = fault, ![r][1].io = TRUE,
                                     ![r][1].ok = probe.ok]
    /\ pc' = [pc EXCEPT ![r] = "done"]
    /\ UNCHANGED <<ret, model, cache_enabled, store, text, chain, result, written,
                   followed, hist>>

\* POST /cache/clear: main.py 173-178; HTTPException(500) is answered by the
\* framework with {"detail": ...}
ClearCache(r) ==
    /\ pc[r] = "flush"
    /\ \E fault \in BOOLEAN :
        LET w == RedisCache_clear_cache(store, fault)
        IN /\ store' = w.store
           /\ written' = IF w.ok THEN EmptyStore ELSE written
           /\ hist' = IF w.ok THEN Disturb(hist, Keys, "flush") ELSE hist
           /\ calls' = [calls EXCEPT ![r][1].fault = fault, ![r][1].io = TRUE,
                                     ![r][1].ok = w.ok]
           /\ resp' = [resp EXCEPT ![r] =
                IF w.raised THEN general_exception_handler(RedisFault)
                ELSE IF w.ok
                THEN [NoResp EXCEPT !.status = 200,
                                    !.message = "Cache cleared successfully"]
                ELSE [NoResp EXCEPT !.status = 500,
                                    !.detail = "Failed to clear cache"]]
    /\ pc' = [pc EXCEPT ![r] = "done"]
    /\ UNCHANGED <<ret, model, cache_enabled, text, chain, result, followed>>

\* The process is stopped and started with another OLLAMA_MODEL (lifespan; the
\* settings are read once per process): its requests are over, the Redis
\* database outlives it. The model follows one upgrade, "llama2" to "llama3".
Restart ==
    /\ \A r \in Requests : pc[r] \in {"idle", "done"}
    /\ model = "llama2"
    /\ model' = "llama3"
    /\ pc' = [r \in Requests |-> "idle"]
    /\ text' = [r \in Requests |-> ""]
    /\ chain' = [r \in Requests |-> NoReply]
    /\ result' = [r \in Requests |-> NoOutcome]
    /\ resp' = [r \in Requests |-> NoResp]
    /\ calls' = [r \in Requests |-> <<>>]
    /\ UNCHANGED <<ret, cache_enabled, store, written, followed, hist>>

Next ==
    \/ \E r \in Requests, t \in Texts : Begin(r, t)
    \/ \E r \in Requests : CacheGet(r)
    \/ \E r \in Requests : ChainReply(r)
    \/ \E r \in Requests : WaitForTimeout(r)
    \/ \E r \in Requests : CacheSet(r)
    \/ \E r \in Requests : BeginAdmin(r, "ping")
    \/ \E r \in Requests : HealthCheck(r)
    \/ \E r \in Requests : BeginAdmin(r, "flush")
    \/ \E r \in Requests : ClearCache(r)
    \/ Tick
    \/ Restart

Spec == Init /\ [][Next]_vars

\* The requests that read, write, expire or flush cache entries.
NextFollowed ==
    \/ \E r \in Requests, t \in Texts : Begin(r, t)
    \/ \E r \in Requests : CacheGet(r)
    \/ \E r \in Requests : ChainReply(r)
    \/ \E r \in Requests : WaitForTimeout(r)
    \/ \E r \in Requests : CacheSet(r)
    \/ \E r \in Requests : BeginAdmin(r, "flush")
    \/ \E r \in Requests : ClearCache(r)
    \/ Tick

SpecFollowed == InitFollowed /\ [][NextFollowed]_vars

\* ------------------------------------------------------------------ progress
\* The event loop runs what is due: the timer of asyncio.wait_for fires once
\* request_timeout has passed, and a call on the Redis client returns or
\* raises (the client's own socket timeouts). Nothing makes the backend reply.
Fairness ==
    \A r \in Requests :
        /\ WF_vars(WaitForTimeout(r))
        /\ WF_vars(CacheGet(r))
        /\ WF_vars(CacheSet(r))

\* One run of the process ("llama3" throughout), no client followed.
InitLive ==
    InitCommon /\ model = "llama3" /\ cache_enabled = TRUE /\ followed = {}

SpecLive == InitLive /\ [][NextFollowed]_vars /\ Fairness

\* ------------------------------------------------------ the cache on its own
\* The entries a caller may pass to RedisCache.set.
Entries ==
    { response_data(t, v, "llama3") :
        t \in Texts,
        v \in {[label |-> "positive", confidence |-> 95,
                explanation |-> "Great product!"], FallbackJudgment} }

\* The ttl arguments of RedisCache.set: 0 stands for None, the default.
TtlArgs == {0, 1}

\* A RedisCache constructed with either value of cache_enabled, over an empty
\* database, and called method by method.
InitCache == InitCommon /\ cache_enabled \in BOOLEAN /\ followed = {}

Untouched == <<model, cache_enabled, pc, text, chain, result, resp, calls,
               followed, hist>>

\* await cache.get(key): cache.py 15-26
RedisCacheGet(key) ==
    \E fault \in BOOLEAN :
        LET got == RedisCache_get(cache_enabled, store, key, fault)
        IN /\ ret' = [op |-> "get", key |-> key, fault |-> fault,
                      raised |-> got.raised, value |-> got.value,
                      ok |-> FALSE, io |-> got.io]
           /\ UNCHANGED <<store, written>>
           /\ UNCHANGED Untouched

\* await cache.set(key, value, ttl): cache.py 28-39
RedisCacheSet(key, value, ttl) ==
    \E fault \in BOOLEAN :
        LET w == RedisCache_set(cache_enabled, store, key, value, ttl,
                                TtlTicks, fault)
        IN /\ ret' = [op |-> "set", key |-> key, fault |-> fault,
                      raised |-> w.raised, value |-> value, ok |-> w.ok,
                      io |-> w.io]
           /\ store' = w.store
           /\ written' =
                IF w.ok
                THEN [k \in DOMAIN w.store |->
                        IF k = key
                        THEN [value |-> value,
                              age |-> TtlTicks - w.store[key].ttl,
                              by |-> "return"]
                        ELSE written[k]]
                ELSE written
           /\ UNCHANGED Untouched

\* await cache.delete(key): cache.py 41-48
RedisCacheDelete(key) ==
    \E fault \in BOOLEAN :
        LET w == RedisCache_delete(store, key, fault)
        IN /\ ret' = [op |-> "delete", key |-> key, fault |-> fault,
                      raised |-> w.raised, value |-> NoEntry, ok |-> w.ok,
                      io |-> TRUE]
           /\ store' = w.store
           /\ written' = [k \in DOMAIN w.store |-> written[k]]
           /\ UNCHANGED Untouched

\* await cache.health_check(): cache.py 50-57
RedisCacheHealthCheck ==
    \E fault \in BOOLEAN :
        LET probe == RedisCache_health_check(fault)
        IN /\ ret' = [op |-> "health_check", key |-> "", fault |-> fault,
                      raised |-> probe.raised, value |-> NoEntry,
                      ok |-> probe.ok, io |-> TRUE]
           /\ UNCHANGED <<store, written>>
           /\ UNCHANGED Untouched

\* await cache.clear_cache(): cache.py 59-66
RedisCacheClearCache ==
    \E fault \in BOOLEAN :
        LET w == RedisCache_clear_cache(store, fault)
        IN /\ ret' = [op |-> "clear_cache", key |-> "", fault |-> fault,
                      raised |-> w.raised, value |-> NoEntry, ok |-> w.ok,
                      io |-> TRUE]
           /\ store' = w.store
           /\ written' = IF w.ok THEN EmptyStore ELSE written
           /\ UNCHANGED Untouched

NextCache ==
    \/ \E key \in Keys : RedisCacheGet(key)
    \/ \E key \in Keys, value \in Entries, ttl \in TtlArgs :
            RedisCacheSet(key, value, ttl)
    \/ \E key \in Keys : RedisCacheDelete(key)
    \/ RedisCacheHealthCheck
    \/ RedisCacheClearCache
    \/ Tick

SpecCache == InitCache /\ [][NextCache]_vars

\* --------------------------------------------------------- caching disabled
\* A process whose RedisCache was constructed with cache_enabled=False, over a
\* database that holds an entry an earlier process wrote.
InitDisabled ==
    /\ model \in Models
    /\ cache_enabled = FALSE
    /\ \E e \in Entries :
        /\ store = RedisSetex(EmptyStore, generate_cache_key(e.text), TtlTicks,
                              JsonDumps(e))
        /\ written = [k \in {generate_cache_key(e.text)} |->
                        [value |-> e, age |-> 0, by |-> "return"]]
    /\ FreshRequests
    /\ hist = [r \in Requests |-> NoHist]
    /\ followed = {}
    /\ ret = NoRet

SpecDisabled == InitDisabled /\ [][Next]_vars

\* ------------------------------------------------------------------ claims
\* The request is a POST /analyze.
IsAnalyze(r) == calls[r] # <<>> /\ calls[r][1].op = "get"

\* The request is a POST /analyze whose cache lookup has returned.
HasRead(r) == IsAnalyze(r) /\ pc[r] # "get"

\* The request's cache lookup returned an entry.
IsHit(r) == HasRead(r) /\ calls[r][1].value # NoEntry

\* C1: a POST /analyze whose cache lookup returns an entry responds 200 with
\* cached=true and the stored entry's sentiment and model_used, and makes no
\* backend call and no cache write (its only call is the one cache read).
C1_HitServedFromStoredEntry ==
    \A r \in Requests :
        IsHit(r) =>
            /\ pc[r] = "done"
            /\ Len(calls[r]) = 1
            /\ resp[r].status = 200
            /\ resp[r].cached = TRUE
            /\ resp[r].sentiment = calls[r][1].value.sentiment
            /\ resp[r].model_used = calls[r][1].value.model_used

\* C1 witness: a hit served while another model is configured.
C1_Witness ==
    \E r \in Requests :
        /\ IsHit(r)
        /\ resp[r].cached = TRUE
        /\ resp[r].model_used = "llama2"
        /\ model = "llama3"

\* C2: on a miss whose backend analysis succeeds the request makes exactly one
\* cache read, then one backend call with the request text, then one cache
\* write of {text, returned judgment, configured model}, and responds 200 with
\* cached=false, that judgment and the configured model.
C2_MissCallsInOrder ==
    \A r \in Requests :
        result[r].kind = "return" =>
            /\ pc[r] \in {"set", "done"}
            /\ Len(calls[r]) = 3
            /\ calls[r][1].op = "get"
            /\ calls[r][1].key = generate_cache_key(text[r])
            /\ calls[r][1].value = NoEntry
            /\ calls[r][2].op = "analyze"
            /\ calls[r][2].text = text[r]
            /\ calls[r][3].op = "set"
            /\ calls[r][3].key = generate_cache_key(text[r])
            /\ calls[r][3].value =
                   [text |-> text[r], sentiment |-> result[r].value,
                    model_used |-> model]
            /\ pc[r] = "done" =>
                /\ resp[r].status = 200
                /\ resp[r].cached = FALSE
                /\ resp[r].text = text[r]
                /\ resp[r].sentiment = result[r].value
                /\ resp[r].model_used = model

\* C2 witness: a miss answered with the backend's own judgment.
C2_Witness ==
    \E r \in Requests :
        /\ pc[r] = "done"
        /\ chain[r].kind = "json"
        /\ result[r].kind = "return"
        /\ resp[r].status = 200
        /\ resp[r].cached = FALSE
\* C3 as stated: a followed client's second call in sequence for the same
\* text, with no expiry in between, is answered 200 with cached=true and the
\* sentiment of its first (cached=false) response.
C3_Original ==
    \A r \in followed :
        (/\ pc[r] = "done"
         /\ hist[r].calls = 3
         /\ hist[r].state \notin {"expired", "renewed"}) =>
            /\ resp[r].status = 200
            /\ resp[r].cached = TRUE
            /\ resp[r].sentiment = hist[r].sentiment

\* C3 amended: the second call is answered 200 with cached=true and the first
\* response's sentiment when the first call's cache write succeeded, the second
\* call's read reached the store, and no expiry, flush or other request's
\* write touched the key in between.
C3_SecondCallServedFromFirst ==
    \A r \in followed :
        (/\ pc[r] = "done"
         /\ hist[r].calls = 3
         /\ hist[r].state = "intact") =>
            /\ resp[r].status = 200
            /\ resp[r].cached = TRUE
            /\ resp[r].text = hist[r].text
            /\ resp[r].sentiment = hist[r].sentiment

\* C3 witness: a second call served from the entry the first call wrote.
C3_Witness ==
    \E r \in followed :
        /\ pc[r] = "done"
        /\ hist[r].calls = 3
        /\ hist[r].state = "intact"
        /\ resp[r].cached = TRUE
        /\ resp[r].sentiment = hist[r].sentiment

\* C4: every entry in the store was written by a request whose backend
\* analysis returned a validated judgment, and a request whose backend call
\* ended in a timeout or a structured failure has made no cache write.
C4_OnlySuccessfulAnalysesCached ==
    /\ \A k \in DOMAIN store :
        /\ written[k].by = "return"
        /\ JsonLoads(store[k].data) = written[k].value
        /\ SentimentResultValid(written[k].value.sentiment)
    /\ \A r \in Requests :
        result[r].kind = "raise" =>
            /\ pc[r] = "done"
            /\ \A i \in DOMAIN calls[r] : calls[r][i].op # "set"

\* C4 witness: a timed-out request and a failed one are over, the store holds
\* an entry another request wrote.
C4_Witness ==
    /\ DOMAIN store # {}
    /\ \E r \in Requests :
        /\ pc[r] = "done"
        /\ chain[r].kind \in {"timeout", "fault"}
        /\ result[r].kind = "raise"
        /\ generate_cache_key(text[r]) \notin DOMAIN store

\* C5: a backend call that exceeds the timeout on a miss is answered 504 with
\* {error: "Analysis timeout", details, code: 504}; only a timeout is answered
\* so, and a structured analysis failure is never answered 504.
C5_TimeoutIs504 ==
    \A r \in Requests :
        (pc[r] = "done" /\ IsAnalyze(r)) =>
            /\ chain[r].kind = "timeout" =>
                /\ resp[r].status = 504
                /\ resp[r].code = 504
                /\ resp[r].error = "Analysis timeout"
                /\ resp[r].details = "Sentiment analysis request timed out"
            /\ (resp[r].status = 504 \/ resp[r].error = "Analysis timeout") =>
                /\ chain[r].kind = "timeout"
                /\ result[r].exc = "TimeoutError"
            /\ result[r].exc = "SentimentAnalysisError" =>
                /\ resp[r].status # 504
                /\ resp[r].code # 504

\* C5 witness: a request answered 504.
C5_Witness ==
    \E r \in Requests :
        /\ pc[r] = "done"
        /\ chain[r].kind = "timeout"
        /\ resp[r].status = 504

\* C6 as stated: a structured analysis failure is answered 500 "Sentiment
\* analysis failed" with the failure's details payload in the details field.
C6_Original ==
    \A r \in Requests :
        (pc[r] = "done" /\ result[r].exc = "SentimentAnalysisError") =>
            /\ resp[r].status = 500
            /\ resp[r].error = "Sentiment analysis failed"
            /\ resp[r].details = result[r].details

\* C6 amended: the response is 500 "Sentiment analysis failed" and its details
\* field is the failure's message: "Invalid response format from LLM" for a
\* schema-invalid reply, "Unexpected error during sentiment analysis" for any
\* other fault; the details payload stays on the exception.
C6_DetailsIsFailureMessage ==
    \A r \in Requests :
        (pc[r] = "done" /\ result[r].exc = "SentimentAnalysisError") =>
            /\ resp[r].status = 500
            /\ resp[r].code = 500
            /\ resp[r].error = "Sentiment analysis failed"
            /\ resp[r].details = result[r].msg
            /\ resp[r].details # result[r].details
            /\ chain[r].kind = "json" =>
                /\ resp[r].details = "Invalid response format from LLM"
                /\ result[r].details \in
                    {"{'validation_errors': [{'type': 'enum', 'loc': ('label',)}]}",
                     "{'validation_errors': [{'type': 'less_than_equal', 'loc': ('confidence',)}]}"}
            /\ chain[r].kind = "fault" =>
                /\ resp[r].details = "Unexpected error during sentiment analysis"
                /\ result[r].details = "{'error': 'Connection refused'}"

\* C6 witness: a schema-invalid reply answered 500.
C6_Witness ==
    \E r \in Requests :
        /\ pc[r] = "done"
        /\ chain[r].kind = "json"
        /\ chain[r].value.confidence = 150
        /\ result[r].exc = "SentimentAnalysisError"
        /\ resp[r].status = 500
\* C7: a failing cache read is treated as a miss (the backend is called), a
\* failing cache write leaves the response 200 with cached=false and the
\* fresh judgment, and every failure /analyze returns is the backend
\* client's timeout or structured failure.
C7_CacheFaultsNotSurfaced ==
    \A r \in Requests :
        IsAnalyze(r) =>
            /\ (HasRead(r) /\ calls[r][1].fault) =>
                /\ calls[r][1].value = NoEntry
                /\ Len(calls[r]) >= 2
                /\ calls[r][2].op = "analyze"
            /\ (pc[r] = "done" /\ Len(calls[r]) = 3) =>
                /\ resp[r].status = 200
                /\ resp[r].cached = FALSE
                /\ resp[r].sentiment = result[r].value
            /\ (pc[r] = "done" /\ resp[r].status # 200) =>
                /\ result[r].kind = "raise"
                /\ result[r].exc \in {"TimeoutError", "SentimentAnalysisError"}
                /\ resp[r].error \in {"Analysis timeout", "Sentiment analysis failed"}
                /\ resp[r].details = result[r].msg

\* C7 witness: the read and the write both failed and the answer is 200.
C7_Witness ==
    \E r \in Requests :
        /\ pc[r] = "done"
        /\ Len(calls[r]) = 3
        /\ calls[r][1].fault
        /\ calls[r][3].fault
        /\ resp[r].status = 200
        /\ resp[r].cached = FALSE

\* C8: the backend client maps a reply that is not JSON to the fallback
\* judgment as a normal return, a timeout to a timeout failure, and a reply
\* that fails schema validation or any other fault to a structured analysis
\* failure; a valid reply is returned as it is.
C8_ThreeWayOutcome ==
    \A r \in Requests :
        chain[r].kind # "none" =>
            /\ chain[r].kind = "garbage" => result[r] = Returned(FallbackJudgment)
            /\ chain[r].kind = "timeout" =>
                /\ result[r].kind = "raise"
                /\ result[r].exc = "TimeoutError"
            /\ (chain[r].kind = "json" /\ SentimentResultValid(chain[r].value)) =>
                result[r] = Returned(chain[r].value)
            /\ (chain[r].kind = "json" /\ ~SentimentResultValid(chain[r].value)) =>
                /\ result[r].kind = "raise"
                /\ result[r].exc = "SentimentAnalysisError"
                /\ result[r].msg = "Invalid response format from LLM"
            /\ chain[r].kind = "fault" =>
                /\ result[r].kind = "raise"
                /\ result[r].exc = "SentimentAnalysisError"
                /\ result[r].msg = "Unexpected error during sentiment analysis"

\* C8 witness: one request got the fallback for a reply that is not JSON while
\* another got a structured failure for an unknown label.
C8_Witness ==
    \E r1, r2 \in Requests :
        /\ chain[r1].kind = "garbage"
        /\ result[r1].kind = "return"
        /\ result[r1].value = FallbackJudgment
        /\ chain[r2].kind = "json"
        /\ chain[r2].value.label = "happy"
        /\ result[r2].exc = "SentimentAnalysisError"

\* The next step of a request in flight.
StepOf(r) ==
    \/ CacheGet(r)
    \/ ChainReply(r)
    \/ WaitForTimeout(r)
    \/ CacheSet(r)
    \/ HealthCheck(r)
    \/ ClearCache(r)

\* C9: under any interleaving each request makes at most one backend call,
\* requests for the same text write the same key, no request in flight waits
\* for another (its next step is always possible), and the store holds under
\* each key the entry of the last write that succeeded.
C9_ConcurrentMissesLastWriteWins ==
    /\ \A r \in Requests :
        /\ Cardinality({i \in DOMAIN calls[r] : calls[r][i].op = "analyze"}) <= 1
        /\ pc[r] \notin {"idle", "done"} => ENABLED StepOf(r)
    /\ \A r1, r2 \in Requests :
        (/\ text[r1] = text[r2]
         /\ Len(calls[r1]) = 3
         /\ Len(calls[r2]) = 3) => calls[r1][3].key = calls[r2][3].key
    /\ \A k \in DOMAIN store : JsonLoads(store[k].data) = written[k].value

\* C9 witness: two requests for the same text both missed, both called the
\* backend, got different judgments and both wrote; the store holds one of them.
C9_Witness ==
    \E r1, r2 \in Requests :
        /\ r1 # r2
        /\ text[r1] = text[r2]
        /\ pc[r1] = "done" /\ pc[r2] = "done"
        /\ Len(calls[r1]) = 3 /\ Len(calls[r2]) = 3
        /\ ~calls[r1][3].fault /\ ~calls[r2][3].fault
        /\ resp[r1].sentiment # resp[r2].sentiment
        /\ generate_cache_key(text[r1]) \in DOMAIN store
        /\ written[generate_cache_key(text[r1])].age = 0
        /\ written[generate_cache_key(text[r1])].value.sentiment = resp[r2].sentiment

\* C10: an entry is stored with the configured time-to-live counted from its
\* write and from nothing else (its remaining life plus its age is the
\* time-to-live); once it has expired the followed client's next /analyze for
\* that text reads absent, calls the backend and answers cached=false.
C10_EntryExpiresAfterTtl ==
    /\ \A k \in DOMAIN store :
        /\ store[k].ttl >= 1
        /\ store[k].ttl + written[k].age = TtlTicks
    /\ \A r \in followed :
        (hist[r].calls = 3 /\ hist[r].state = "expired") =>
            /\ calls[r][1].value = NoEntry
            /\ Len(calls[r]) >= 2
            /\ calls[r][2].op = "analyze"
            /\ (pc[r] = "done" /\ resp[r].status = 200) => resp[r].cached = FALSE

\* C10 witness: the followed client's entry expired and its next call for the
\* text was computed afresh.
C10_Witness ==
    \E r \in followed :
        /\ hist[r].calls = 3
        /\ hist[r].state = "expired"
        /\ pc[r] = "done"
        /\ resp[r].status = 200
        /\ resp[r].cached = FALSE
        /\ ~calls[r][1].fault

\* The request is a GET /health.
IsHealth(r) == calls[r] # <<>> /\ calls[r][1].op = "ping"

\* The request is a POST /cache/clear.
IsClear(r) == calls[r] # <<>> /\ calls[r][1].op = "flush"

\* C11: GET /health answers 200 with status "healthy" and cache "healthy"
\* exactly when the store's probe succeeded and 503 with status "degraded" and
\* cache "unhealthy" exactly when it failed; a store fault during the probe
\* is never answered with an error response.
C11_HealthReflectsProbe ==
    \A r \in Requests :
        (IsHealth(r) /\ pc[r] = "done") =>
            /\ resp[r].status \in {200, 503}
            /\ resp[r].status = 200 <=> ~calls[r][1].fault
            /\ resp[r].status = 200 =>
                /\ resp[r].health = "healthy"
                /\ resp[r].cache = "healthy"
            /\ resp[r].status = 503 =>
                /\ resp[r].health = "degraded"
                /\ resp[r].cache = "unhealthy"
            /\ resp[r].error = ""
            /\ resp[r].detail = ""

\* C11 witness: one probe found the store unreachable, another found it up.
C11_Witness ==
    \E r1, r2 \in Requests :
        /\ IsHealth(r1) /\ pc[r1] = "done"
        /\ calls[r1][1].fault
        /\ resp[r1].status = 503
        /\ IsHealth(r2) /\ pc[r2] = "done"
        /\ ~calls[r2][1].fault
        /\ resp[r2].status = 200

\* C12: POST /cache/clear answers 200 with the success message when the flush
\* succeeded, and the store then holds no entry; it answers 500 when the flush
\* failed, and the store's entries are then unchanged. A read of a key the
\* store does not hold is a miss, and a key enters the store only by a
\* request's cache write.
C12_ClearCacheFlushesOrFails ==
    [][/\ \A r \in Requests :
            (pc[r] = "flush" /\ pc'[r] = "done") =>
                \/ /\ resp'[r].status = 200
                   /\ resp'[r].message = "Cache cleared successfully"
                   /\ ~calls'[r][1].fault
                   /\ store' = EmptyStore
                \/ /\ resp'[r].status = 500
                   /\ resp'[r].message = ""
                   /\ calls'[r][1].fault
                   /\ store' = store
       /\ \A r \in Requests :
            (/\ pc[r] = "get"
             /\ pc'[r] # "get"
             /\ generate_cache_key(text[r]) \notin DOMAIN store) =>
                /\ pc'[r] = "backend"
                /\ calls'[r][1].value = NoEntry
       /\ \A k \in (DOMAIN store') \ (DOMAIN store) :
            \E r \in Requests :
                /\ pc[r] = "set"
                /\ pc'[r] = "done"
                /\ k = generate_cache_key(text[r])
      ]_vars

\* C12 witness: a clear answered 200 left the store empty after another
\* request had written an entry.
C12_Witness ==
    \E r1, r2 \in Requests :
        /\ IsClear(r1) /\ pc[r1] = "done"
        /\ resp[r1].status = 200
        /\ store = EmptyStore
        /\ pc[r2] = "done"
        /\ Len(calls[r2]) = 3
        /\ ~calls[r2][3].fault

\* The response carries the error envelope {error, details, code}.
IsEnvelope(response) ==
    /\ response.error # ""
    /\ response.code = response.status
    /\ response.detail = ""
    /\ response.message = ""

\* C13 as stated: every failure response, of /analyze and of /cache/clear
\* alike, carries the envelope {error, details, code} with code equal to the
\* HTTP status, 500 or 504.
C13_Original ==
    \A r \in Requests :
        (/\ pc[r] = "done"
         /\ IsAnalyze(r) \/ IsClear(r)
         /\ resp[r].status # 200) =>
            /\ resp[r].status \in {500, 504}
            /\ IsEnvelope(resp[r])

\* C13 amended: every failure raised while POST /analyze is handled is answered
\* with the envelope, code equal to the HTTP status: 504 "Analysis timeout" for
\* a timeout, 500 "Sentiment analysis failed" for a structured analysis
\* failure, 500 "Internal server error" for any other fault; a failed
\* /cache/clear is answered 500 with the body {"detail": "Failed to clear
\* cache"}, which is not the envelope.
C13_AnalyzeFailuresCarryEnvelope ==
    \A r \in Requests :
        (pc[r] = "done" /\ resp[r].status # 200) =>
            /\ IsAnalyze(r) =>
                /\ IsEnvelope(resp[r])
                /\ resp[r].status \in {500, 504}
                /\ resp[r].status = 504 <=> result[r].exc = "TimeoutError"
                /\ resp[r].status = 504 => resp[r].error = "Analysis timeout"
                /\ resp[r].status = 500 =>
                    resp[r].error \in {"Sentiment analysis failed",
                                       "Internal server error"}
                /\ result[r].exc = "SentimentAnalysisError" =>
                    resp[r].error = "Sentiment analysis failed"
            /\ IsClear(r) =>
                /\ resp[r].status = 500
                /\ resp[r].detail = "Failed to clear cache"
                /\ resp[r].error = ""
                /\ resp[r].details = ""
                /\ resp[r].code = 0

\* C13 witness: a timeout answered with the envelope and a failed clear
\* answered with the framework's body.
C13_Witness ==
    \E r1, r2 \in Requests :
        /\ IsAnalyze(r1) /\ pc[r1] = "done"
        /\ resp[r1].status = 504
        /\ resp[r1].code = 504
        /\ IsClear(r2) /\ pc[r2] = "done"
        /\ resp[r2].status = 500
        /\ resp[r2].detail = "Failed to clear cache"

\* C14: no method of the cache propagates a failure: whatever the store does,
\* get, set, delete, health_check and clear_cache return to their caller, and
\* on a fault get returns None and the other four return False, leaving the
\* store as it was.
C14_NoCacheFailurePropagates ==
    [][/\ ~ret'.raised
       /\ ret'.fault =>
            /\ ~ret'.ok
            /\ ret'.op = "get" => ret'.value = NoEntry
            /\ ret' # ret => store' = store
      ]_vars

\* C14 witness: a delete of a key the store holds found the store unreachable
\* and returned False.
C14_Witness ==
    /\ ret.op = "delete"
    /\ ret.fault
    /\ ret.ok = FALSE
    /\ ret.raised = FALSE
    /\ ret.key \in DOMAIN store

\* C15: with caching disabled every cache read of a POST /analyze returns None
\* and every cache write returns False, neither reaches the Redis client nor
\* changes the store (also when the store holds the key); the request still
\* makes its read, one backend call and its write, in that order, and a
\* successful one answers cached=false.
C15_DisabledCacheIsBypassed ==
    /\ [](\A r \in Requests :
            IsAnalyze(r) =>
                /\ HasRead(r) =>
                    /\ calls[r][1].value = NoEntry
                    /\ ~calls[r][1].io
                    /\ Len(calls[r]) >= 2
                    /\ calls[r][2].op = "analyze"
                    /\ calls[r][2].text = text[r]
                    /\ Cardinality({i \in DOMAIN calls[r] :
                                        calls[r][i].op = "analyze"}) = 1
                /\ result[r].kind = "return" =>
                    /\ Len(calls[r]) = 3
                    /\ calls[r][3].op = "set"
                    /\ calls[r][3].key = generate_cache_key(text[r])
                /\ (pc[r] = "done" /\ Len(calls[r]) = 3) =>
                    /\ ~calls[r][3].ok
                    /\ ~calls[r][3].io
                    /\ resp[r].status = 200
                    /\ resp[r].cached = FALSE
                    /\ resp[r].sentiment = result[r].value
                /\ (pc[r] = "done" /\ resp[r].status = 200) =>
                    resp[r].cached = FALSE)
    /\ [][(\E r \in Requests : pc[r] \in {"get", "set"} /\ pc'[r] # pc[r]) =>
            store' = store]_vars

\* C15 witness: a request answered cached=false while the store holds an
\* entry under its key.
C15_Witness ==
    \E r \in Requests :
        /\ IsAnalyze(r)
        /\ pc[r] = "done"
        /\ resp[r].status = 200
        /\ resp[r].cached = FALSE
        /\ ~calls[r][1].io
        /\ ~calls[r][3].io
        /\ generate_cache_key(text[r]) \in DOMAIN store

\* C16: the cache key is a function of the raw text alone: texts that differ
\* in case or in surrounding whitespace have different keys, every read and
\* write of a request uses the key of its own text, every entry is stored under
\* the key of the text it holds, a hit returns an entry written for exactly
\* the request's text, and the text of every 200 response is the request's.
C16_KeyIsRawText ==
    /\ \A t1, t2 \in KeyTexts :
        t1 # t2 => generate_cache_key(t1) # generate_cache_key(t2)
    /\ \A k \in DOMAIN store :
        /\ generate_cache_key(JsonLoads(store[k].data).text) = k
        /\ written[k].value.text = JsonLoads(store[k].data).text
    /\ \A r \in Requests :
        IsAnalyze(r) =>
            /\ \A i \in DOMAIN calls[r] :
                calls[r][i].op \in {"get", "set"} =>
                    calls[r][i].key = Md5Hex[text[r]]
            /\ IsHit(r) => calls[r][1].value.text = text[r]
            /\ (pc[r] = "done" /\ resp[r].status = 200) => resp[r].text = text[r]

\* C16 witness: "good" and "Good" are both served from the cache, each from
\* its own entry.
C16_Witness ==
    \E r1, r2 \in Requests :
        /\ IsHit(r1) /\ text[r1] = "good" /\ resp[r1].text = "good"
        /\ IsHit(r2) /\ text[r2] = "Good" /\ resp[r2].text = "Good"
        /\ resp[r1].cached /\ resp[r2].cached
        /\ resp[r1].sentiment # resp[r2].sentiment

\* C17: every entry in the store is the JSON text of exactly the fields text,
\* sentiment and model_used, with a label of the enumeration and a confidence
\* between 0.0 and 1.0; every value passed to cache.set has exactly these
\* fields (cached, processing_time and timestamp are added after the write);
\* so the response built from any entry is a valid 200 and every hit is one.
C17_StoredEntriesAreValidPayloads ==
    /\ \A k \in DOMAIN store :
        LET data == store[k].data
            entry == JsonLoads(data)
        IN /\ Len(data) = 8
           /\ data[1] = "text"
           /\ data[3] = "sentiment"
           /\ data[7] = "model_used"
           /\ entry.text \in Texts
           /\ entry.model_used \in Models
           /\ entry.sentiment.label \in SentimentLabel
           /\ entry.sentiment.confidence >= 0
           /\ entry.sentiment.confidence <= 100
           /\ HitResponse(entry).status = 200
    /\ \A r \in Requests :
        /\ \A i \in DOMAIN calls[r] :
            calls[r][i].op = "set" =>
                /\ DOMAIN calls[r][i].value = {"text", "sentiment", "model_used"}
                /\ SentimentResultValid(calls[r][i].value.sentiment)
        /\ IsHit(r) => resp[r].status = 200

\* C17 witness: the store holds a backend judgment under one key and the
\* fallback judgment, of confidence 0.0, under the other, and a hit was served.
C17_Witness ==
    /\ \E k1, k2 \in DOMAIN store :
        /\ JsonLoads(store[k1].data).sentiment.confidence = 95
        /\ JsonLoads(store[k2].data).sentiment = FallbackJudgment
    /\ \E r \in Requests : IsHit(r) /\ resp[r].status = 200

\* C18: every POST /analyze that is waiting for the backend ends with a
\* response, also when the backend never replies; a request's response is
\* written once; and a request whose wait timed out has been answered 504
\* with no judgment, has made one backend call and no cache write, and its
\* timeout left the store as it was.
C18_BackendWaitEnds ==
    /\ \A r \in Requests : (pc[r] = "backend") ~> (pc[r] = "done")
    /\ [](\A r \in Requests :
            chain[r].kind = "timeout" =>
                /\ pc[r] = "done"
                /\ result[r].kind = "raise"
                /\ result[r].exc = "TimeoutError"
                /\ resp[r].status = 504
                /\ resp[r].sentiment = NoValue
                /\ Len(calls[r]) = 2
                /\ calls[r][2].op = "analyze"
                /\ calls[r][1].op = "get")
    /\ [][\A r \in Requests :
            /\ resp'[r] # resp[r] =>
                \/ resp'[r] = NoResp
                \/ resp[r] = NoResp /\ pc[r] # "done" /\ pc'[r] = "done"
            /\ (pc[r] = "backend" /\ chain'[r].kind = "timeout") =>
                /\ store' = store
                /\ pc'[r] = "done"
         ]_vars

\* C18 witness: a request whose backend never replied was answered 504.
C18_Witness ==
    \E r \in Requests :
        /\ pc[r] = "done"
        /\ chain[r].kind = "timeout"
        /\ resp[r].status = 504
        /\ Len(calls[r]) = 2

\* The followed client's second call for a text whose first call was answered
\* with the fallback judgment has been answered.
FallbackFollowed(r) ==
    /\ pc[r] = "done"
    /\ hist[r].calls = 3
    /\ hist[r].sentiment = FallbackJudgment

\* The second call was served from the cache with the fallback judgment and
\* made no backend call.
FallbackServed(r) ==
    /\ resp[r].status = 200
    /\ resp[r].cached = TRUE
    /\ resp[r].sentiment = FallbackJudgment
    /\ Len(calls[r]) = 1

\* C19 as stated: after a first call answered with the fallback judgment, the
\* followed client's next call for that text, before expiry or flush, is
\* answered with the fallback judgment, cached=true, without a backend call.
C19_Original ==
    \A r \in followed :
        (FallbackFollowed(r)
         /\ hist[r].state \notin {"expired", "renewed", "flushed"}) =>
            FallbackServed(r)

\* C19 amended: a reply that is not JSON becomes the fallback judgment, a
\* normal return that the handler passes to cache.set under the text's key; a
\* write that succeeds stores it with the default time-to-live; and when that
\* write succeeded, the next read reaches the store, and no expiry, flush or
\* other request's write touched the key in between, the next call for the
\* text is answered with the fallback judgment, cached=true, without a
\* backend call.
C19_FallbackIsCachedAndServed ==
    /\ [](\A r \in Requests :
            chain[r].kind = "garbage" =>
                /\ result[r] = Returned(FallbackJudgment)
                /\ pc[r] \in {"set", "done"}
                /\ Len(calls[r]) = 3
                /\ calls[r][3].op = "set"
                /\ calls[r][3].key = generate_cache_key(text[r])
                /\ calls[r][3].value.sentiment = FallbackJudgment
                /\ pc[r] = "done" =>
                    /\ resp[r].status = 200
                    /\ resp[r].cached = FALSE
                    /\ resp[r].sentiment = FallbackJudgment)
    /\ [](\A r \in followed :
            (FallbackFollowed(r) /\ hist[r].state = "intact") =>
                FallbackServed(r))
    /\ [][\A r \in Requests :
            (/\ pc[r] = "set"
             /\ pc'[r] = "done"
             /\ chain[r].kind = "garbage"
             /\ calls'[r][3].ok) =>
                LET key == generate_cache_key(text[r])
                IN /\ key \in DOMAIN store'
                   /\ store'[key].ttl = TtlTicks
                   /\ JsonLoads(store'[key].data).sentiment = FallbackJudgment
                   /\ JsonLoads(store'[key].data).text = text[r]
         ]_vars

\* C19 witness: the followed client's second call was served the cached
\* fallback judgment.
C19_Witness ==
    \E r \in followed :
        /\ FallbackFollowed(r)
        /\ hist[r].state = "intact"
        /\ FallbackServed(r)

====
